---- MODULE Spec2Model ----
(***************************************************************************)
(* Model of run.py: record_factory(cls_name, field_names) and the record   *)
(* type it returns (__init__, __iter__, __repr__, __slots__), together     *)
(* with get_field_names.                                                   *)
(*                                                                         *)
(* Text (a str) is a sequence of one-character strings, so that split(),   *)
(* replace() and isidentifier() are computed character by character.  The  *)
(* library calls the source makes (str.split, str.isidentifier,            *)
(* inspect.Signature / Parameter / Signature.bind, type() with __slots__,  *)
(* setattr / getattr) are modelled by what CPython 3.11 does.              *)
(***************************************************************************)
EXTENDS Integers, Sequences, FiniteSets, TLC

VARIABLES
    cls_name,     \* argument cls_name of the last record_factory call
    field_names,  \* argument field_names of the last record_factory call
    slots,        \* record_factory's local `slots` (get_field_names' result)
    cls,          \* the type record_factory returned, or NoType
    obj,          \* the instance the last successful constructor call made, or NoObj
    call,         \* the last call made by the caller
    raised,       \* the exception the last call raised, or NoErr
    iter_out,     \* what list(instance) returned in the last call, if it was one
    repr_out      \* what repr(instance) returned in the last call, if it was one

vars == <<cls_name, field_names, slots, cls, obj, call, raised, iter_out, repr_out>>

----------------------------------------------------------------------------
(* Bounds of the model *)

MaxLen == 3       \* longest str given as field_names
MaxFields == 2    \* longest list / iterator given as field_names
MaxArgs == 3      \* most positional arguments of a constructor call
MaxKw == 2        \* most keyword arguments of a constructor call
MaxDict == 1      \* most entries an instance __dict__ grows to

\* characters a str specification is drawn from
Chars == {"i", "f", "2", ",", " ", "-"}

Txt(s) == CASE s = "" -> << >>
            [] s = "i" -> <<"i">>
            [] s = "f" -> <<"f">>
            [] s = "m" -> <<"m">>
            [] s = "2" -> <<"2">>
            [] s = "if" -> <<"i", "f">>
            [] s = "__i" -> <<"_", "_", "i">>
            [] s = "__dict__" -> <<"_", "_", "d", "i", "c", "t", "_", "_">>
            [] s = "Dog" -> <<"D", "o", "g">>
            [] s = "Cat" -> <<"C", "a", "t">>

\* names a list / iterator specification is drawn from
ListNames == {Txt(""), Txt("i"), Txt("f"), Txt("if"), Txt("2"), Txt("__i"), Txt("__dict__")}

\* keyword names of constructor calls, attribute names of assignments
KwNames == {Txt("i"), Txt("f"), Txt("m")}
AttrNames == {Txt("i"), Txt("f"), Txt("m"), Txt("__i"), Txt("__dict__")}

ClsNames == {Txt("Dog"), Txt("Cat")}

SeqsUpTo(S, n) == UNION {[1..k -> S] : k \in 0..n}

----------------------------------------------------------------------------
(* Values and exceptions *)

NoneVal == [t |-> "none", s |-> "", n |-> 0, d |-> << >>]
StrVal(x) == [t |-> "str", s |-> x, n |-> 0, d |-> << >>]
IntVal(x) == [t |-> "int", s |-> "", n |-> x, d |-> << >>]
\* a dict: the sequence of its items [k |-> key, v |-> value] in insertion order
DictVal(items) == [t |-> "dict", s |-> "", n |-> 0, d |-> items]

\* values assigned to attributes
Values == {StrVal("Rex"), IntVal(30), DictVal(<< >>)}
\* values passed to the constructor
ArgValues == {IntVal(30), DictVal(<< >>)}

NoErr == [exc |-> "", msg |-> "", arg |-> << >>]
Err(e, m, a) == [exc |-> e, msg |-> m, arg |-> a]

----------------------------------------------------------------------------
(* str methods *)

Letters == {"a", "b", "c", "d", "e", "f", "g", "h", "i", "j", "k", "l", "m",
            "n", "o", "p", "q", "r", "s", "t", "u", "v", "w", "x", "y", "z",
            "A", "B", "C", "D", "E", "F", "G", "H", "I", "J", "K", "L", "M",
            "N", "O", "P", "Q", "R", "S", "T", "U", "V", "W", "X", "Y", "Z"}
Digits == {"0", "1", "2", "3", "4", "5", "6", "7", "8", "9"}
Whitespace == {" ", "\t", "\n", "\r", "\f"}

\* the str a sequence of characters spells
RECURSIVE Str(_)
Str(cs) == IF cs = << >> THEN "" ELSE Head(cs) \o Str(Tail(cs))

\* the specification used as it is, commas not replaced
ReplaceNothing(text, old, new) == text

\* field_names.replace(",", " ")
Replace(text, old, new) == [k \in 1..Len(text) |-> IF text[k] = old THEN new ELSE text[k]]

\* text.split(): the maximal runs of non-whitespace characters, in order
RECURSIVE SplitFrom(_, _, _)
SplitFrom(text, k, cur) ==
    IF k > Len(text)
    THEN IF cur = << >> THEN << >> ELSE <<cur>>
    ELSE IF text[k] \in Whitespace
         THEN (IF cur = << >> THEN << >> ELSE <<cur>>) \o SplitFrom(text, k + 1, << >>)
         ELSE SplitFrom(text, k + 1, Append(cur, text[k]))

Split(text) == SplitFrom(text, 1, << >>)

\* the characters checked alike, the first not told apart
IsIdentifierAnyFirst(n) ==
    /\ Len(n) > 0
    /\ \A k \in 1..Len(n) : n[k] \in Letters \cup Digits \cup {"_"}

\* n.isidentifier()
IsIdentifier(n) ==
    /\ Len(n) > 0
    /\ n[1] \in Letters \cup {"_"}
    /\ \A k \in 1..Len(n) : n[k] \in Letters \cup Digits \cup {"_"}

\* keyword.kwlist
kwlist == {"False", "None", "True", "and", "as", "assert", "async", "await",
           "break", "class", "continue", "def", "del", "elif", "else", "except",
           "finally", "for", "from", "global", "if", "import", "in", "is",
           "lambda", "nonlocal", "not", "or", "pass", "raise", "return", "try",
           "while", "with", "yield"}

iskeyword(n) == Str(n) \in kwlist

----------------------------------------------------------------------------
(* field specifications *)

\* a str
StrSpec(text) == [kind |-> "str", text |-> text, items |-> << >>]
\* a list or tuple of names
ListSpec(items) == [kind |-> "list", text |-> << >>, items |-> items]
\* an iterator or generator over names: it can be traversed once
IterSpec(items) == [kind |-> "iter", text |-> << >>, items |-> items]

StrSpecs == {StrSpec(t) : t \in SeqsUpTo(Chars, MaxLen)}
ListSpecs == {ListSpec(ns) : ns \in SeqsUpTo(ListNames, MaxFields)}
IterSpecs == {IterSpec(ns) : ns \in SeqsUpTo(ListNames, MaxFields)}
FieldSpecs == StrSpecs \cup ListSpecs \cup IterSpecs

\* the candidate names of a specification: `names` in get_field_names
Candidates(fn) ==
    IF fn.kind = "str" THEN Split(Replace(fn.text, ",", " ")) ELSE fn.items

\* all(n.isidentifier() for n in names), from element k on: its result and
\* how many elements it has drawn from names (it stops at the first element
\* that is not an identifier)
RECURSIVE AllIdentifiers(_, _)
AllIdentifiers(names, k) ==
    IF k > Len(names) THEN [ok |-> TRUE, drawn |-> Len(names)]
    ELSE IF IsIdentifier(names[k]) THEN AllIdentifiers(names, k + 1)
         ELSE [ok |-> FALSE, drawn |-> k]

\* tuple(names) after the all(...) pass: a list is traversed again from its
\* start, an iterator gives only what the pass has left in it
TupleAfter(fn, names, drawn) ==
    IF fn.kind = "iter" THEN SubSeq(names, drawn + 1, Len(names)) ELSE names

get_field_names(fn) ==
    LET names == Candidates(fn)
        pass == AllIdentifiers(names, 1)
    IN IF ~pass.ok
       THEN [names |-> << >>,
             err |-> Err("TypeError", "All field names must be identifiers", << >>)]
       ELSE [names |-> TupleAfter(fn, names, pass.drawn), err |-> NoErr]

----------------------------------------------------------------------------
(* type(cls_name, (object,), clsdict) with "__slots__": slots *)

NoType == [made |-> FALSE, name |-> << >>, slots |-> << >>, members |-> {},
           has_dict |-> FALSE, has_weakref |-> FALSE]

\* the keys of clsdict
ClsDictKeys == {"__init__", "__iter__", "__repr__", "__slots__"}

RECURSIVE StripUnderscores(_)
StripUnderscores(cs) ==
    IF cs # << >> /\ Head(cs) = "_" THEN StripUnderscores(Tail(cs)) ELSE cs

\* private-name mangling of a slot name inside the class body
Mangle(cn, name) ==
    LET n == Len(name)
        private == /\ n >= 2 /\ name[1] = "_" /\ name[2] = "_"
                   /\ ~(name[n] = "_" /\ name[n - 1] = "_")
                   /\ \A k \in 1..n : name[k] # "."
        stripped == StripUnderscores(cn)
    IN IF private /\ stripped # << >> THEN <<"_">> \o stripped \o name ELSE name

Count(sl, name) == Cardinality({k \in 1..Len(sl) : sl[k] = name})

TypeNew(cn, sl) ==
    LET dictname == <<"_", "_", "d", "i", "c", "t", "_", "_">>
        weakname == <<"_", "_", "w", "e", "a", "k", "r", "e", "f", "_", "_">>
        plain == {k \in 1..Len(sl) : sl[k] \notin {dictname, weakname}}
    IN IF Count(sl, dictname) > 1
       THEN [type |-> NoType,
             err |-> Err("TypeError", "__dict__ slot disallowed: we already got one", << >>)]
       ELSE IF Count(sl, weakname) > 1
       THEN [type |-> NoType,
             err |-> Err("TypeError", "__weakref__ slot disallowed: either we already got one, or __itemsize__ != 0", << >>)]
       ELSE IF \E k \in plain : Str(Mangle(cn, sl[k])) \in ClsDictKeys
       THEN LET k == CHOOSE j \in plain :
                        /\ Str(Mangle(cn, sl[j])) \in ClsDictKeys
                        /\ \A h \in plain : Str(Mangle(cn, sl[h])) \in ClsDictKeys => j <= h
            IN [type |-> NoType,
                err |-> Err("ValueError", "in __slots__ conflicts with class variable", sl[k])]
       ELSE [type |-> [made |-> TRUE, name |-> cn, slots |-> sl,
                       members |-> {Mangle(cn, sl[k]) : k \in plain},
                       has_dict |-> Count(sl, dictname) = 1,
                       has_weakref |-> Count(sl, weakname) = 1],
             err |-> NoErr]

record_factory(cn, fn) ==
    LET r == get_field_names(fn)
    IN IF r.err # NoErr
       THEN [slots |-> << >>, type |-> NoType, err |-> r.err]
       ELSE LET t == TypeNew(cn, r.names)
            IN [slots |-> r.names, type |-> t.type, err |-> t.err]

----------------------------------------------------------------------------
(* instances: setattr, getattr *)

NoObj == [live |-> FALSE, slot |-> << >>, dict |-> << >>]
NewObj == [live |-> TRUE, slot |-> << >>, dict |-> << >>]

HasKey(items, key) == \E k \in 1..Len(items) : items[k].k = key
KeyIndex(items, key) == CHOOSE k \in 1..Len(items) : items[k].k = key

\* d[key] = v on a dict
DictSet(items, key, v) ==
    IF HasKey(items, key)
    THEN [items EXCEPT ![KeyIndex(items, key)] = [k |-> key, v |-> v]]
    ELSE Append(items, [k |-> key, v |-> v])

\* setattr(o, name, v) on an instance o of the generated type T
ObjSetAttr(T, o, name, v) ==
    IF name \in T.members
    THEN [obj |-> [o EXCEPT !.slot = (name :> v) @@ o.slot], err |-> NoErr]
    ELSE IF Str(name) = "__dict__" /\ T.has_dict
    THEN IF v.t = "dict"
         THEN [obj |-> [o EXCEPT !.dict = v.d], err |-> NoErr]
         ELSE [obj |-> o, err |-> Err("TypeError", "__dict__ must be set to a dictionary", << >>)]
    ELSE IF Str(name) = "__weakref__" /\ T.has_weakref
    THEN [obj |-> o, err |-> Err("AttributeError", "attribute is not writable", name)]
    ELSE IF T.has_dict
    THEN [obj |-> [o EXCEPT !.dict = DictSet(o.dict, name, v)], err |-> NoErr]
    ELSE [obj |-> o, err |-> Err("AttributeError", "object has no attribute", name)]

\* getattr(o, name)
ObjGetAttr(T, o, name) ==
    IF name \in T.members
    THEN IF name \in DOMAIN o.slot
         THEN [val |-> o.slot[name], err |-> NoErr]
         ELSE [val |-> NoneVal, err |-> Err("AttributeError", "object has no attribute", name)]
    ELSE IF Str(name) = "__dict__" /\ T.has_dict
    THEN [val |-> DictVal(o.dict), err |-> NoErr]
    ELSE IF Str(name) = "__weakref__" /\ T.has_weakref
    THEN [val |-> NoneVal, err |-> NoErr]
    ELSE IF T.has_dict /\ HasKey(o.dict, name)
    THEN [val |-> o.dict[KeyIndex(o.dict, name)].v, err |-> NoErr]
    ELSE [val |-> NoneVal, err |-> Err("AttributeError", "object has no attribute", name)]

----------------------------------------------------------------------------
(* inspect.Signature over the slots, and Signature.bind *)

\* Signature(Parameter(name=name, kind=POSITIONAL_OR_KEYWORD) for name in slots),
\* from parameter k on: Parameter rejects a keyword, Signature a repeated name
RECURSIVE MakeSignature(_, _)
MakeSignature(sl, k) ==
    IF k > Len(sl) THEN NoErr
    ELSE IF iskeyword(sl[k])
    THEN Err("ValueError", "is not a valid parameter name", sl[k])
    ELSE IF \E j \in 1..(k - 1) : sl[j] = sl[k]
    THEN Err("ValueError", "duplicate parameter name", sl[k])
    ELSE MakeSignature(sl, k + 1)

\* kwargs without the item of key `key`
DictPop(items, key) == SelectSeq(items, LAMBDA it : it.k # key)

\* Signature.bind_partial in place of bind: a parameter without a value is
\* passed over
RECURSIVE BindKeywordsPartial(_, _, _, _)
BindKeywordsPartial(sl, kwargs, k, arguments) ==
    IF k > Len(sl)
    THEN IF kwargs # << >>
         THEN [arguments |-> << >>,
               err |-> Err("TypeError", "got an unexpected keyword argument", kwargs[1].k)]
         ELSE [arguments |-> arguments, err |-> NoErr]
    ELSE IF HasKey(kwargs, sl[k])
    THEN BindKeywordsPartial(sl, DictPop(kwargs, sl[k]), k + 1,
                             Append(arguments, [k |-> sl[k], v |-> kwargs[KeyIndex(kwargs, sl[k])].v]))
    ELSE BindKeywordsPartial(sl, kwargs, k + 1, arguments)

\* the keywords left over after the parameters are served are dropped
RECURSIVE BindKeywordsDropRest(_, _, _, _)
BindKeywordsDropRest(sl, kwargs, k, arguments) ==
    IF k > Len(sl)
    THEN [arguments |-> arguments, err |-> NoErr]
    ELSE IF HasKey(kwargs, sl[k])
    THEN BindKeywordsDropRest(sl, DictPop(kwargs, sl[k]), k + 1,
                              Append(arguments, [k |-> sl[k], v |-> kwargs[KeyIndex(kwargs, sl[k])].v]))
    ELSE [arguments |-> << >>,
          err |-> Err("TypeError", "missing a required argument", sl[k])]

\* second loop of Signature._bind: the parameters from k on take their value
\* from kwargs; what is left in kwargs afterwards is unexpected
RECURSIVE BindKeywords(_, _, _, _)
BindKeywords(sl, kwargs, k, arguments) ==
    IF k > Len(sl)
    THEN IF kwargs # << >>
         THEN [arguments |-> << >>,
               err |-> Err("TypeError", "got an unexpected keyword argument", kwargs[1].k)]
         ELSE [arguments |-> arguments, err |-> NoErr]
    ELSE IF HasKey(kwargs, sl[k])
    THEN BindKeywords(sl, DictPop(kwargs, sl[k]), k + 1,
                      Append(arguments, [k |-> sl[k], v |-> kwargs[KeyIndex(kwargs, sl[k])].v]))
    ELSE [arguments |-> << >>,
          err |-> Err("TypeError", "missing a required argument", sl[k])]

\* first loop of Signature._bind: positional argument k goes to parameter k
RECURSIVE BindPositional(_, _, _, _, _)
BindPositional(sl, args, kwargs, k, arguments) ==
    IF k > Len(args) THEN BindKeywords(sl, kwargs, k, arguments)
    ELSE IF k > Len(sl)
    THEN [arguments |-> << >>, err |-> Err("TypeError", "too many positional arguments", << >>)]
    ELSE IF HasKey(kwargs, sl[k])
    THEN [arguments |-> << >>, err |-> Err("TypeError", "multiple values for argument", sl[k])]
    ELSE BindPositional(sl, args, kwargs, k + 1, Append(arguments, [k |-> sl[k], v |-> args[k]]))

\* sig.bind(*args, **kwargs)
Bind(sl, args, kwargs) == BindPositional(sl, args, kwargs, 1, << >>)

\* for name, value in bound.arguments.items(): setattr(self, name, value)
RECURSIVE SetAll(_, _, _, _)
SetAll(T, o, arguments, k) ==
    IF k > Len(arguments) THEN [obj |-> o, err |-> NoErr]
    ELSE LET r == ObjSetAttr(T, o, arguments[k].k, arguments[k].v)
         IN IF r.err # NoErr THEN [obj |-> NoObj, err |-> r.err]
            ELSE SetAll(T, r.obj, arguments, k + 1)

\* T(*args, **kwargs): object.__new__ and then __init__
__init__(T, sl, args, kwargs) ==
    LET sig == MakeSignature(sl, 1)
        bound == Bind(sl, args, kwargs)
    IN IF sig # NoErr THEN [obj |-> NoObj, err |-> sig]
       ELSE IF bound.err # NoErr THEN [obj |-> NoObj, err |-> bound.err]
       ELSE SetAll(T, NewObj, bound.arguments, 1)

----------------------------------------------------------------------------
(* __iter__ and __repr__ *)

\* for name in self.__slots__: yield getattr(self, name), from slot k on
RECURSIVE IterFrom(_, _, _)
IterFrom(T, o, k) ==
    IF k > Len(T.slots) THEN [vals |-> << >>, err |-> NoErr]
    ELSE LET g == ObjGetAttr(T, o, T.slots[k])
             rest == IterFrom(T, o, k + 1)
         IN IF g.err # NoErr THEN [vals |-> << >>, err |-> g.err]
            ELSE IF rest.err # NoErr THEN rest
            ELSE [vals |-> <<g.val>> \o rest.vals, err |-> NoErr]

__iter__(T, o) == IterFrom(T, o, 1)

\* sep.join(parts)
RECURSIVE Join(_, _)
Join(sep, parts) ==
    IF parts = << >> THEN ""
    ELSE IF Len(parts) = 1 THEN parts[1]
    ELSE parts[1] \o sep \o Join(sep, Tail(parts))

\* repr(v)
RECURSIVE PyRepr(_)
PyRepr(v) ==
    CASE v.t = "str" -> "'" \o v.s \o "'"
      [] v.t = "int" -> ToString(v.n)
      [] v.t = "dict" ->
           "{" \o Join(", ", [k \in 1..Len(v.d) |->
                                 "'" \o Str(v.d[k].k) \o "': " \o PyRepr(v.d[k].v)]) \o "}"
      [] OTHER -> "None"

\* "{}({})".format(self.__class__.__name__,
\*                 ", ".join(f"{k}={v!r}" for k, v in zip(slots, self)))
__repr__(T, sl, o) ==
    LET it == __iter__(T, o)
        n == IF Len(sl) < Len(it.vals) THEN Len(sl) ELSE Len(it.vals)
    IN IF it.err # NoErr THEN [text |-> "", err |-> it.err]
       ELSE [text |-> Str(T.name) \o "("
                      \o Join(", ", [k \in 1..n |-> Str(sl[k]) \o "=" \o PyRepr(it.vals[k])])
                      \o ")",
             err |-> NoErr]

----------------------------------------------------------------------------
(* The caller's calls *)

Call(op, args, kwargs, attr, value) ==
    [op |-> op, args |-> args, kwargs |-> kwargs, attr |-> attr, value |-> value]

NoCall == Call("none", << >>, << >>, << >>, NoneVal)

\* keyword arguments of a call: items with distinct keys, in call order
KwArgs == {kw \in SeqsUpTo([k : KwNames, v : ArgValues], MaxKw) :
              \A a, b \in 1..Len(kw) : a # b => kw[a].k # kw[b].k}

Init ==
    /\ cls_name = << >>
    /\ field_names = StrSpec(<< >>)
    /\ slots = << >>
    /\ cls = NoType
    /\ obj = NoObj
    /\ call = NoCall
    /\ raised = NoErr
    /\ iter_out = << >>
    /\ repr_out = ""

\* T = record_factory(cn, fn)
RecordFactory(cn, fn) ==
    LET r == record_factory(cn, fn)
    IN /\ cls_name' = cn
       /\ field_names' = fn
       /\ slots' = r.slots
       /\ cls' = r.type
       /\ obj' = NoObj
       /\ call' = Call("record_factory", << >>, << >>, << >>, NoneVal)
       /\ raised' = r.err
       /\ iter_out' = << >>
       /\ repr_out' = ""

\* A behaviour follows one record_factory call, one constructor call on the
\* type it returned and the life of the instance that call made: each call of
\* record_factory builds its own type and each constructor call its own
\* Signature and instance, so calls share no state.

\* record_factory called with any field specification
Factory ==
    /\ call.op = "none"
    /\ \E cn \in ClsNames, fn \in FieldSpecs : RecordFactory(cn, fn)

\* Dog = record_factory('Dog', [...]) with a list of names
MakeType ==
    /\ call.op = "none"
    /\ \E fn \in ListSpecs : RecordFactory(Txt("Dog"), fn)

\* rex = T(*args, **kwargs)
New ==
    /\ call.op = "record_factory"
    /\ cls.made
    /\ \E args \in SeqsUpTo(ArgValues, MaxArgs), kwargs \in KwArgs :
          LET r == __init__(cls, slots, args, kwargs)
          IN /\ obj' = r.obj
             /\ call' = Call("new", args, kwargs, << >>, NoneVal)
             /\ raised' = r.err
    /\ iter_out' = << >>
    /\ repr_out' = ""
    /\ UNCHANGED <<cls_name, field_names, slots, cls>>

\* rex.name = value
SetAttr ==
    /\ obj.live
    /\ \E name \in AttrNames, value \in Values :
          LET r == ObjSetAttr(cls, obj, name, value)
          IN /\ Len(r.obj.dict) <= MaxDict
             /\ obj' = r.obj
             /\ call' = Call("setattr", << >>, << >>, name, value)
             /\ raised' = r.err
    /\ iter_out' = << >>
    /\ repr_out' = ""
    /\ UNCHANGED <<cls_name, field_names, slots, cls>>

\* list(rex)
Iterate ==
    /\ obj.live
    /\ LET r == __iter__(cls, obj)
       IN /\ iter_out' = r.vals
          /\ raised' = r.err
    /\ call' = Call("iter", << >>, << >>, << >>, NoneVal)
    /\ repr_out' = ""
    /\ UNCHANGED <<cls_name, field_names, slots, cls, obj>>

\* repr(rex)
Display ==
    /\ obj.live
    /\ LET r == __repr__(cls, slots, obj)
       IN /\ repr_out' = r.text
          /\ raised' = r.err
    /\ call' = Call("repr", << >>, << >>, << >>, NoneVal)
    /\ iter_out' = << >>
    /\ UNCHANGED <<cls_name, field_names, slots, cls, obj>>

Next == MakeType \/ New \/ SetAttr \/ Iterate \/ Display

Spec == Init /\ [][Next]_vars

NextFactory == Factory

SpecFactory == Init /\ [][NextFactory]_vars

----------------------------------------------------------------------------
(* Vocabulary of the properties *)

Min(S) == CHOOSE x \in S : \A y \in S : x <= y

\* the declared field names of the type
Declared == {slots[k] : k \in 1..Len(slots)}

\* the value field `name` of the instance holds
Field(name) == ObjGetAttr(cls, obj, name)

\* the attributes the instance carries
Carried == {a \in AttrNames \cup Declared : Field(a).err = NoErr}

\* positions of the declared fields the last constructor call gave no value
Missing == {k \in 1..Len(slots) :
               k > Len(call.args) /\ ~HasKey(call.kwargs, slots[k])}

\* positions of the declared fields the last constructor call gave both a
\* positional and a keyword value
Doubled == {k \in 1..Len(slots) :
               k <= Len(call.args) /\ HasKey(call.kwargs, slots[k])}

\* positions, in the call, of the keywords that name no declared field
Undeclared == {j \in 1..Len(call.kwargs) : call.kwargs[j].k \notin Declared}

\* no declared field name is a keyword or occurs twice
PlainFields ==
    /\ \A k \in 1..Len(slots) : ~iskeyword(slots[k])
    /\ \A j, k \in 1..Len(slots) : j # k => slots[j] # slots[k]

Separators == Whitespace \cup {","}

\* the tokens of a str: <<a, b>> for each maximal run text[a..b] without separator
Runs(text) ==
    {r \in (1..Len(text)) \X (1..Len(text)) :
        /\ r[1] <= r[2]
        /\ \A k \in r[1]..r[2] : text[k] \notin Separators
        /\ (r[1] = 1 \/ text[r[1] - 1] \in Separators)
        /\ (r[2] = Len(text) \/ text[r[2] + 1] \in Separators)}

\* the tokens of a str in order of occurrence
Tokens(text) ==
    LET runs == Runs(text)
        nth(k) == CHOOSE r \in runs : Cardinality({q \in runs : q[1] < r[1]}) = k - 1
    IN [k \in 1..Cardinality(runs) |-> SubSeq(text, nth(k)[1], nth(k)[2])]

\* the candidate names of the field specification given
Names == IF field_names.kind = "str" THEN Tokens(field_names.text) ELSE field_names.items

\* not an identifier: empty, a character other than letter, digit, underscore,
\* or a digit first
NotIdentifier(n) ==
    \/ n = << >>
    \/ \E k \in 1..Len(n) : n[k] \notin Letters \cup Digits \cup {"_"}
    \/ n[1] \in Digits

InvalidFieldName == Err("TypeError", "All field names must be identifiers", << >>)

----------------------------------------------------------------------------
(* Properties *)

\* C1: a constructor call with k <= n positional arguments and keywords naming
\* exactly the other n - k declared fields succeeds, and afterwards field i
\* holds the i-th positional argument (i <= k) or the value of its keyword.
C1_Construct ==
    (/\ call.op = "new"
     /\ Len(call.args) <= Len(slots)
     /\ Len(call.kwargs) = Len(slots) - Len(call.args)
     /\ \A k \in 1..Len(slots) : k > Len(call.args) => HasKey(call.kwargs, slots[k]))
    => /\ raised = NoErr
       /\ obj.live
       /\ \A k \in 1..Len(slots) :
             /\ Field(slots[k]).err = NoErr
             /\ Field(slots[k]).val =
                   IF k <= Len(call.args) THEN call.args[k]
                   ELSE call.kwargs[KeyIndex(call.kwargs, slots[k])].v

\* C2: for every instance, iteration yields the current values of the fields
\* in declared order, and the display is TypeName(f1=v1, ..., fn=vn) over the
\* same fields, values and order.
C2_IterDisplay ==
    /\ call.op = "iter" =>
          /\ raised = NoErr
          /\ Len(iter_out) = Len(slots)
          /\ \A k \in 1..Len(slots) :
                Field(slots[k]).err = NoErr /\ iter_out[k] = Field(slots[k]).val
    /\ call.op = "repr" =>
          /\ raised = NoErr
          /\ repr_out = Str(cls_name) \o "("
                \o Join(", ", [k \in 1..Len(slots) |->
                                  Str(slots[k]) \o "=" \o PyRepr(Field(slots[k]).val)])
                \o ")"

\* C3 as stated: every constructor call that leaves a declared field without
\* a value fails with the missing-argument error naming a missing field.
C3_Original ==
    (call.op = "new" /\ Missing # {})
    => /\ raised.exc = "TypeError"
       /\ raised.msg = "missing a required argument"
       /\ \E k \in Missing : raised.arg = slots[k]

\* C3 as amended: such a call fails and makes no instance; the error is the
\* missing-argument error naming the first missing field in declared order
\* exactly when no field name is a keyword or repeated and no field is given
\* both a positional and a keyword value; a field given both is reported
\* first, and a keyword or repeated field name before either.
C3_Missing ==
    (call.op = "new" /\ Missing # {})
    => /\ raised # NoErr
       /\ ~obj.live
       /\ (PlainFields /\ Doubled = {}) =>
             raised = Err("TypeError", "missing a required argument", slots[Min(Missing)])
       /\ (PlainFields /\ Doubled # {}) =>
             raised = Err("TypeError", "multiple values for argument", slots[Min(Doubled)])
       /\ ~PlainFields => raised.exc = "ValueError"

C3_Witness ==
    /\ call.op = "new"
    /\ Len(slots) = 2
    /\ Len(call.args) = 1
    /\ Missing = {2}
    /\ raised = Err("TypeError", "missing a required argument", slots[2])

\* C4: every constructor call that gives some declared field both a positional
\* and a keyword value fails with the duplicate-argument error naming such a
\* field.
C4_Duplicate ==
    (call.op = "new" /\ Doubled # {})
    => /\ raised.exc = "TypeError"
       /\ raised.msg = "multiple values for argument"
       /\ \E k \in Doubled : raised.arg = slots[k]

\* C5 as stated: every constructor call with a keyword that names no declared
\* field fails with the unexpected-argument error naming such a keyword,
\* whatever the other arguments are.
C5_Original ==
    (call.op = "new" /\ Undeclared # {})
    => /\ raised.exc = "TypeError"
       /\ raised.msg = "got an unexpected keyword argument"
       /\ \E j \in Undeclared : raised.arg = call.kwargs[j].k

\* C5 as amended: such a call fails and makes no instance; the error is the
\* unexpected-argument error, naming the first such keyword of the call,
\* exactly when no field name is a keyword or repeated, there are no more
\* positional arguments than fields, no field is given two values and none is
\* missing; otherwise the error of that other fault is raised.
C5_Unexpected ==
    (call.op = "new" /\ Undeclared # {})
    => /\ raised # NoErr
       /\ ~obj.live
       /\ (raised = Err("TypeError", "got an unexpected keyword argument",
                        call.kwargs[Min(Undeclared)].k))
          <=> (/\ PlainFields
               /\ Len(call.args) <= Len(slots)
               /\ Doubled = {}
               /\ Missing = {})
       /\ raised.msg = "got an unexpected keyword argument"
             => raised = Err("TypeError", "got an unexpected keyword argument",
                             call.kwargs[Min(Undeclared)].k)

C5_Witness ==
    /\ call.op = "new"
    /\ Len(slots) = 2
    /\ Len(call.args) = 1
    /\ Len(call.kwargs) = 2
    /\ Undeclared = {1}
    /\ Missing = {}
    /\ raised = Err("TypeError", "got an unexpected keyword argument", call.kwargs[1].k)

\* C6: the attributes an instance carries are declared field names; assigning
\* a name that is not a declared field fails and leaves the instance as it
\* was; assigning a declared field succeeds.
C6_Closed ==
    [][/\ obj'.live => Carried' \subseteq Declared'
       /\ (call'.op = "setattr" /\ call'.attr \notin Declared')
             => (raised' # NoErr /\ obj' = obj)
       /\ (call'.op = "setattr" /\ call'.attr \in Declared')
             => raised' = NoErr]_vars

\* C7: for a str or a list whose names are all identifiers, get_field_names
\* returns exactly those names in input order: the tokens between whitespace
\* and commas of a str, the elements of a list.
C7_Names ==
    (/\ call.op = "record_factory"
     /\ field_names.kind \in {"str", "list"}
     /\ \A k \in 1..Len(Names) : ~NotIdentifier(Names[k]))
    => /\ raised # InvalidFieldName
       /\ slots = Names

C7_Witness ==
    /\ call.op = "record_factory"
    /\ field_names.kind = "str"
    /\ \E k \in 1..Len(field_names.text) : field_names.text[k] = ","
    /\ Len(slots) = 2
    /\ slots = Names

\* C8: a field specification with a candidate name that is not an identifier
\* makes get_field_names fail with the invalid-field-name error;
\* record_factory raises that error and returns no type.
C8_Invalid ==
    (/\ call.op = "record_factory"
     /\ \E k \in 1..Len(Names) : NotIdentifier(Names[k]))
    => /\ raised = InvalidFieldName
       /\ ~cls.made
       /\ slots = << >>

C8_Witness ==
    /\ call.op = "record_factory"
    /\ field_names.kind = "iter"
    /\ Len(Names) = 2
    /\ ~NotIdentifier(Names[1])
    /\ NotIdentifier(Names[2])
    /\ raised = InvalidFieldName
    /\ ~cls.made

\* C9: a field specification with a candidate name that is a reserved keyword
\* is rejected with the invalid-field-name error.
C9_Keyword ==
    (/\ call.op = "record_factory"
     /\ \E k \in 1..Len(Names) : iskeyword(Names[k]))
    => raised = InvalidFieldName

\* C10: for a list and for an iterator that can be traversed once,
\* get_field_names returns all the names it validated, in order.
C10_Iterable ==
    (/\ call.op = "record_factory"
     /\ field_names.kind \in {"list", "iter"}
     /\ raised # InvalidFieldName)
    => slots = field_names.items

====
